---- MODULE Spec2Model ----
(***************************************************************************)
(* EventGenerator (src/event_generator.py): date/time formatting, example  *)
(* and audience selection by keyword, and the two generation flows         *)
(* (description, volunteer expectations) around one remote model call      *)
(* with a template fallback.                                               *)
(*                                                                         *)
(* Python str values are TLA+ strings; Len, \o, SubSeq, Head and Tail act  *)
(* on them character by character.                                         *)
(***************************************************************************)
EXTENDS Integers, Sequences, FiniteSets, TLC

VARIABLES
    pc,                 \* where the (single, blocking) caller is
    op,                 \* the method the caller last entered
    args,               \* the positional string arguments of a helper call
    ret,                \* how that call ended: [kind, value]
    event_data,         \* the event_data argument of the flow in progress
    event_description,  \* the event_description argument of the expectations flow
    prompt,             \* the values interpolated into the prompt handed to _invoke_model
    requests,           \* bedrock.invoke_model calls issued by the flow in progress
    response,           \* what the provider answered to the last request
    generated,          \* how _invoke_model ended for the flow in progress
    description         \* the last string generate_event_description returned

vars == <<pc, op, args, ret, event_data, event_description, prompt, requests,
          response, generated, description>>

(***************************************************************************)
(* Python str methods                                                      *)
(***************************************************************************)

\* str.strip() / re \s : the ASCII whitespace characters.
Whitespace == {" ", "\t", "\n", "\r", "\f"}

UpperLetters == "ABCDEFGHIJKLMNOPQRSTUVWXYZ"

LowerLetters == "abcdefghijklmnopqrstuvwxyz"

DigitChars == "0123456789"

\* The character of s at position i, "" when there is none.
At(s, i) == IF i >= 1 /\ i <= Len(s) THEN SubSeq(s, i, i) ELSE ""

IsDigit(c) == \E i \in 1..10 : SubSeq(DigitChars, i, i) = c

\* int(c) for a digit character.
DigitValue(c) == CHOOSE n \in 0..9 : SubSeq(DigitChars, n + 1, n + 1) = c

DigitChar(n) == SubSeq(DigitChars, n + 1, n + 1)

\* "%02d" % n, for 0 <= n <= 99.
Pad2(n) == DigitChar(n \div 10) \o DigitChar(n % 10)

RECURSIVE StrInt(_)
\* str(n) for n >= 0.
StrInt(n) == IF n < 10 THEN DigitChar(n) ELSE StrInt(n \div 10) \o DigitChar(n % 10)

LowerChar(c) ==
    IF \E i \in 1..26 : SubSeq(UpperLetters, i, i) = c
    THEN LET i == CHOOSE j \in 1..26 : SubSeq(UpperLetters, j, j) = c
         IN SubSeq(LowerLetters, i, i)
    ELSE c

RECURSIVE lower(_)
\* str.lower()
lower(s) == IF s = "" THEN "" ELSE LowerChar(Head(s)) \o lower(Tail(s))

RECURSIVE lstrip(_, _)
\* str.lstrip(chars): every leading character that is in chars is removed.
lstrip(s, chars) ==
    IF s # "" /\ Head(s) \in chars THEN lstrip(Tail(s), chars) ELSE s

RECURSIVE rstrip(_, _)
rstrip(s, chars) ==
    IF s # "" /\ At(s, Len(s)) \in chars
    THEN rstrip(SubSeq(s, 1, Len(s) - 1), chars)
    ELSE s

\* str.strip()
strip(s) == rstrip(lstrip(s, Whitespace), Whitespace)

\* needle in hay
contains(needle, hay) ==
    \E i \in 1..(Len(hay) - Len(needle) + 1) :
        SubSeq(hay, i, i + Len(needle) - 1) = needle

\* The length of the run of characters not in Whitespace that starts s.
RECURSIVE WordLen(_)
WordLen(s) == IF s = "" \/ Head(s) \in Whitespace THEN 0 ELSE 1 + WordLen(Tail(s))

RECURSIVE split(_)
\* str.split(): the whitespace-delimited words, in order.
split(s) ==
    LET t == lstrip(s, Whitespace)
        n == WordLen(t)
    IN IF t = "" THEN <<>>
       ELSE <<SubSeq(t, 1, n)>> \o split(SubSeq(t, n + 1, Len(t)))

RECURSIVE join(_, _)
\* sep.join(parts) for a sequence of str.
join(sep, parts) ==
    IF parts = <<>> THEN ""
    ELSE IF Len(parts) = 1 THEN parts[1]
    ELSE parts[1] \o sep \o join(sep, Tail(parts))

(***************************************************************************)
(* datetime.strptime / strftime                                            *)
(***************************************************************************)

\* The regular expressions _strptime builds for the directives: the length
\* of the first alternative that matches s at position i, 0 when none does.
\* %Y : \d\d\d\d
re_Y(s, i) ==
    IF \A k \in 0..3 : IsDigit(At(s, i + k)) THEN 4 ELSE 0

\* %m : 1[0-2]|0[1-9]|[1-9]
re_m(s, i) ==
    IF At(s, i) = "1" /\ At(s, i + 1) \in {"0", "1", "2"} THEN 2
    ELSE IF At(s, i) = "0" /\ IsDigit(At(s, i + 1)) /\ At(s, i + 1) # "0" THEN 2
    ELSE IF IsDigit(At(s, i)) /\ At(s, i) # "0" THEN 1
    ELSE 0

\* %d : 3[0-1]|[1-2]\d|0[1-9]|[1-9]| [1-9]
re_d(s, i) ==
    IF At(s, i) = "3" /\ At(s, i + 1) \in {"0", "1"} THEN 2
    ELSE IF At(s, i) \in {"1", "2"} /\ IsDigit(At(s, i + 1)) THEN 2
    ELSE IF At(s, i) = "0" /\ IsDigit(At(s, i + 1)) /\ At(s, i + 1) # "0" THEN 2
    ELSE IF IsDigit(At(s, i)) /\ At(s, i) # "0" THEN 1
    ELSE IF At(s, i) = " " /\ IsDigit(At(s, i + 1)) /\ At(s, i + 1) # "0" THEN 2
    ELSE 0

\* %H : 2[0-3]|[0-1]\d|\d
re_H(s, i) ==
    IF At(s, i) = "2" /\ At(s, i + 1) \in {"0", "1", "2", "3"} THEN 2
    ELSE IF At(s, i) \in {"0", "1"} /\ IsDigit(At(s, i + 1)) THEN 2
    ELSE IF IsDigit(At(s, i)) THEN 1
    ELSE 0

\* %M : [0-5]\d|\d
re_M(s, i) ==
    IF At(s, i) \in {"0", "1", "2", "3", "4", "5"} /\ IsDigit(At(s, i + 1)) THEN 2
    ELSE IF IsDigit(At(s, i)) THEN 1
    ELSE 0

RECURSIVE re_ws(_, _)
\* A blank in the format : \s+
re_ws(s, i) == IF At(s, i) \in Whitespace THEN 1 + re_ws(s, i + 1) ELSE 0

RECURSIVE ToInt(_)
\* int(token) for a matched token (digits, for %d possibly after a blank).
ToInt(tok) ==
    IF tok = "" THEN 0
    ELSE IF At(tok, Len(tok)) = " " THEN ToInt(SubSeq(tok, 1, Len(tok) - 1))
    ELSE 10 * ToInt(SubSeq(tok, 1, Len(tok) - 1)) + DigitValue(At(tok, Len(tok)))

Field(s, i, n) == ToInt(SubSeq(s, i, i + n - 1))

IsLeap(y) == y % 4 = 0 /\ (y % 100 # 0 \/ y % 400 = 0)

DaysInMonth(y, m) ==
    IF m = 2 THEN (IF IsLeap(y) THEN 29 ELSE 28)
    ELSE IF m \in {4, 6, 9, 11} THEN 30 ELSE 31

\* datetime(year, month, day) accepts the date.
ValidDate(y, m, d) == y >= 1 /\ m \in 1..12 /\ d >= 1 /\ d <= DaysInMonth(y, m)

\* The value strptime gives when the string does not match the format or
\* names no date of the calendar: it raises ValueError.
ParseError ==
    [ok |-> FALSE, year |-> 0, month |-> 0, day |-> 0, hour |-> 0, minute |-> 0]

\* No match of the format in the string.
NoMatch ==
    [ok |-> FALSE, year |-> 0, month |-> 0, day |-> 0, hour |-> 0, minute |-> 0,
     next |-> 0]

\* The match of "%Y-%m-%d" at the start of s, given the lengths m and d of
\* its month and day: the date, and `next`, the position after it.
DateFields(s, m, d) ==
    IF /\ re_Y(s, 1) = 4 /\ At(s, 5) = "-"
       /\ m > 0 /\ At(s, 6 + m) = "-"
       /\ d > 0
    THEN [ok |-> TRUE, year |-> Field(s, 1, 4), month |-> Field(s, 6, m),
          day |-> Field(s, 7 + m, d), hour |-> 0, minute |-> 0, next |-> 7 + m + d]
    ELSE NoMatch

DateMonth(s, m) == DateFields(s, m, re_d(s, 7 + m))

MatchDate(s) == DateMonth(s, re_m(s, 6))

\* The match of "%H:%M" in s at position i, given the lengths of its hour
\* and minute.
TimeFields(s, i, h, mi) ==
    IF h > 0 /\ At(s, i + h) = ":" /\ mi > 0
    THEN [ok |-> TRUE, year |-> 1900, month |-> 1, day |-> 1,
          hour |-> Field(s, i, h), minute |-> Field(s, i + h + 1, mi),
          next |-> i + h + 1 + mi]
    ELSE NoMatch

TimeHour(s, i, h) == TimeFields(s, i, h, re_M(s, i + h + 1))

MatchTime(s, i) == TimeHour(s, i, re_H(s, i))

\* strptime's last checks on a match: no data remains after it, and
\* datetime(...) accepts the date.
Parsed(s, match) ==
    IF /\ match.ok
       /\ match.next = Len(s) + 1
       /\ ValidDate(match.year, match.month, match.day)
    THEN [ok |-> TRUE, year |-> match.year, month |-> match.month, day |-> match.day,
          hour |-> match.hour, minute |-> match.minute]
    ELSE ParseError

\* datetime.strptime(s, "%Y-%m-%d")
strptime_date(s) == Parsed(s, MatchDate(s))

\* datetime.strptime(s, "%H:%M")
strptime_time(s) == Parsed(s, MatchTime(s, 1))

\* The date and the time of a match of "%Y-%m-%d %H:%M", w being the
\* length of the whitespace between them.
DateAndTime(date, w, time) ==
    IF date.ok /\ w > 0 /\ time.ok
    THEN [time EXCEPT !.year = date.year, !.month = date.month, !.day = date.day]
    ELSE NoMatch

DateThenBlank(s, date, w) == DateAndTime(date, w, MatchTime(s, date.next + w))

DateThen(s, date) == DateThenBlank(s, date, re_ws(s, date.next))

\* datetime.strptime(s, "%Y-%m-%d %H:%M")
strptime_datetime(s) == Parsed(s, DateThen(s, MatchDate(s)))

WeekdayNames ==
    <<"Monday", "Tuesday", "Wednesday", "Thursday", "Friday", "Saturday", "Sunday">>

MonthNames ==
    <<"January", "February", "March", "April", "May", "June", "July", "August",
      "September", "October", "November", "December">>

RECURSIVE DaysBeforeMonth(_, _)
DaysBeforeMonth(y, m) ==
    IF m = 1 THEN 0 ELSE DaysBeforeMonth(y, m - 1) + DaysInMonth(y, m - 1)

\* date.toordinal(): day 1 is 0001-01-01.
ToOrdinal(y, m, d) ==
    (y - 1) * 365 + (y - 1) \div 4 - (y - 1) \div 100 + (y - 1) \div 400
        + DaysBeforeMonth(y, m) + d

\* date.weekday(): Monday is 0.
Weekday(y, m, d) == (ToOrdinal(y, m, d) + 6) % 7

\* strftime("%A, %B %d, %Y")
strftime_date(dt) ==
    WeekdayNames[Weekday(dt.year, dt.month, dt.day) + 1] \o ", "
        \o MonthNames[dt.month] \o " " \o Pad2(dt.day) \o ", " \o StrInt(dt.year)

\* strftime("%I:%M %p")
strftime_time(dt) ==
    Pad2(((dt.hour + 11) % 12) + 1) \o ":" \o Pad2(dt.minute) \o " "
        \o (IF dt.hour < 12 THEN "AM" ELSE "PM")

\* strftime("%A, %B %d, %Y at %I:%M %p")
strftime_full(dt) == strftime_date(dt) \o " at " \o strftime_time(dt)

\* dt - timedelta(minutes=n), for the clock fields of dt.
MinusMinutes(dt, n) ==
    LET t == (dt.hour * 60 + dt.minute - n) % 1440
    IN [dt EXCEPT !.hour = t \div 60, !.minute = t % 60]

(***************************************************************************)
(* How a call ends                                                         *)
(***************************************************************************)

Return(v) == [kind |-> "return", value |-> v]

\* An exception of class e leaves the call.
Raise(e) == [kind |-> "raise", value |-> e]

NoReturn == [kind |-> "none", value |-> ""]

(***************************************************************************)
(* DateTimeFormatter                                                       *)
(***************************************************************************)

\* The try body of _format_datetime after its two strptime calls, and
\* the except branch when either raised.
FormatPoint(date_str, time_str, date_obj, time_obj) ==
    IF date_obj.ok /\ time_obj.ok
    THEN Return(strftime_date(date_obj) \o " at "
                    \o lstrip(strftime_time(time_obj), {"0"}))
    ELSE Return(date_str \o " at " \o time_str)

\* EventGenerator._format_datetime
_format_datetime(date_str, time_str) ==
    FormatPoint(date_str, time_str, strptime_date(date_str), strptime_time(time_str))

\* The try body of _get_event_duration after its two strptime calls, and
\* the except branch when either raised.
FormatSpan(start_date, end_date, start_time, end_time, start_datetime, end_datetime) ==
    IF start_datetime.ok /\ end_datetime.ok
    THEN IF start_date = end_date
         THEN Return(strftime_date(start_datetime) \o ", "
                         \o lstrip(strftime_time(start_datetime), {"0"}) \o " to "
                         \o lstrip(strftime_time(end_datetime), {"0"}))
         ELSE Return(lstrip(strftime_full(start_datetime), {"0"}) \o " to "
                         \o lstrip(strftime_full(end_datetime), {"0"}))
    ELSE Return(start_date \o " " \o start_time \o " to "
                    \o end_date \o " " \o end_time)

\* _get_event_duration as it would be if it compared the two dates as
\* calendar dates.
_get_event_duration_by_calendar(start_date, end_date, start_time, end_time) ==
    FormatSpan(IF strptime_datetime(start_date \o " " \o start_time).ok
               THEN strftime_date(strptime_datetime(start_date \o " " \o start_time))
               ELSE start_date,
               IF strptime_datetime(end_date \o " " \o end_time).ok
               THEN strftime_date(strptime_datetime(end_date \o " " \o end_time))
               ELSE end_date,
               start_time, end_time,
               strptime_datetime(start_date \o " " \o start_time),
               strptime_datetime(end_date \o " " \o end_time))

\* _get_event_duration as it would be without its try statement: the
\* ValueError of strptime leaves the call.
_get_event_duration_unguarded(start_date, end_date, start_time, end_time) ==
    IF /\ strptime_datetime(start_date \o " " \o start_time).ok
       /\ strptime_datetime(end_date \o " " \o end_time).ok
    THEN FormatSpan(start_date, end_date, start_time, end_time,
                    strptime_datetime(start_date \o " " \o start_time),
                    strptime_datetime(end_date \o " " \o end_time))
    ELSE Raise("ValueError")

\* EventGenerator._get_event_duration
_get_event_duration(start_date, end_date, start_time, end_time) ==
    FormatSpan(start_date, end_date, start_time, end_time,
               strptime_datetime(start_date \o " " \o start_time),
               strptime_datetime(end_date \o " " \o end_time))

(***************************************************************************)
(* EventTypeClassifier                                                     *)
(***************************************************************************)

\* self.example_descriptions, in insertion order. Each example is cut to
\* its opening words.
example_descriptions ==
    << [key |-> "Career Fair",
        example |-> "NIWC Atlantic is hosting a Career Fair at Charleston Southern University."],
       [key |-> "STEM Activity",
        example |-> "NIWC Atlantic regularly hosts targeted STEM Activity sessions."],
       [key |-> "Workshop",
        example |-> "Join us for our hands-on Robotics Workshop"] >>

\* self.example_volunteer_expectations, in insertion order. Each example is
\* cut to its title line.
example_volunteer_expectations ==
    << [key |-> "Career Fair",
        example |-> "# Volunteer Expectations - Career Fair"],
       [key |-> "STEM Activity",
        example |-> "# Volunteer Expectations - Life Budgeting STEM Activity"] >>

\* key.lower() in event_type_lower
KeyInType(key, event_type_lower) == contains(lower(key), event_type_lower)

\* any(word in event_type_lower for word in words)
AnyIn(words, event_type_lower) ==
    \E k \in 1..Len(words) : contains(words[k], event_type_lower)

\* any(word in event_type_lower for word in key.lower().split())
AnyWordInType(key, event_type_lower) == AnyIn(split(lower(key)), event_type_lower)

\* The first loop: the entry at which it returns, 0 when it runs to its end.
FirstKeyInType(catalog, event_type_lower) ==
    IF \E i \in 1..Len(catalog) : KeyInType(catalog[i].key, event_type_lower)
    THEN CHOOSE i \in 1..Len(catalog) :
             /\ KeyInType(catalog[i].key, event_type_lower)
             /\ \A j \in 1..(i - 1) : ~KeyInType(catalog[j].key, event_type_lower)
    ELSE 0

\* The second loop: the entry at which it returns, 0 when it runs to its end.
FirstWordInType(catalog, event_type_lower) ==
    IF \E i \in 1..Len(catalog) : AnyWordInType(catalog[i].key, event_type_lower)
    THEN CHOOSE i \in 1..Len(catalog) :
             /\ AnyWordInType(catalog[i].key, event_type_lower)
             /\ \A j \in 1..(i - 1) : ~AnyWordInType(catalog[j].key, event_type_lower)
    ELSE 0

\* RelevantEntry as it would be with the two loops in the other order.
RelevantEntrySecondFirst(catalog, first, second) ==
    IF second > 0 THEN Return(catalog[second].example)
    ELSE IF first > 0 THEN Return(catalog[first].example)
    ELSE IF catalog # <<>> THEN Return(catalog[1].example)
    ELSE Return("")

\* RelevantEntry as it would be with "" as its default.
RelevantEntryEmptyDefault(catalog, first, second) ==
    IF first > 0 THEN Return(catalog[first].example)
    ELSE IF second > 0 THEN Return(catalog[second].example)
    ELSE Return("")

\* What is returned, given where each loop returns: the first loop's
\* entry, else the second loop's, else the first value of the catalog, ""
\* for an empty catalog.
RelevantEntry(catalog, first, second) ==
    IF first > 0 THEN Return(catalog[first].example)
    ELSE IF second > 0 THEN Return(catalog[second].example)
    ELSE IF catalog # <<>> THEN Return(catalog[1].example)
    ELSE Return("")

RelevantLower(catalog, event_type_lower) ==
    RelevantEntry(catalog, FirstKeyInType(catalog, event_type_lower),
                  FirstWordInType(catalog, event_type_lower))

\* EventGenerator._get_relevant_example
_get_relevant_example(event_type) ==
    RelevantLower(example_descriptions, lower(event_type))

\* EventGenerator._get_relevant_volunteer_example
_get_relevant_volunteer_example(event_type) ==
    RelevantLower(example_volunteer_expectations, lower(event_type))

\* AudienceOf as it would be with the STEM terms tested first.
AudienceOfStemFirst(event_type_lower) ==
    IF AnyIn(<<"stem", "science", "math", "cyber", "robotics", "camp">>, event_type_lower)
    THEN Return("students and educators")
    ELSE IF AnyIn(<<"career fair", "job", "internship">>, event_type_lower)
    THEN Return("students and job seekers")
    ELSE IF AnyIn(<<"workshop", "training", "professional">>, event_type_lower)
    THEN Return("professionals and educators")
    ELSE Return("participants")

\* The if/elif chain of _get_target_audience.
AudienceOf(event_type_lower) ==
    IF AnyIn(<<"career fair", "job", "internship">>, event_type_lower)
    THEN Return("students and job seekers")
    ELSE IF AnyIn(<<"stem", "science", "math", "cyber", "robotics", "camp">>,
                  event_type_lower)
    THEN Return("students and educators")
    ELSE IF AnyIn(<<"workshop", "training", "professional">>, event_type_lower)
    THEN Return("professionals and educators")
    ELSE Return("participants")

\* EventGenerator._get_target_audience
_get_target_audience(event_type) == AudienceOf(lower(event_type))

(***************************************************************************)
(* Python values held by an EventData mapping                              *)
(***************************************************************************)

Str(s) == [t |-> "str", v |-> s, items |-> <<>>]

None == [t |-> "NoneType", v |-> "None", items |-> <<>>]

\* An int n >= 0.
PyInt(n) == [t |-> "int", v |-> StrInt(n), items |-> <<>>]

List(items) == [t |-> "list", v |-> "", items |-> items]

\* bool(x)
Truthy(x) ==
    CASE x.t = "str" -> x.v # ""
      [] x.t = "NoneType" -> FALSE
      [] x.t = "int" -> x.v # "0"
      [] x.t = "list" -> x.items # <<>>

\* repr(x) for an element of a list.
Repr(x) == IF x.t = "str" THEN "'" \o x.v \o "'" ELSE x.v

\* str(x), which is what an f-string interpolates.
PyStr(x) ==
    IF x.t = "list"
    THEN "[" \o join(", ", [i \in 1..Len(x.items) |-> Repr(x.items[i])]) \o "]"
    ELSE x.v

\* event_data.get(key, default)
Get(data, key, default) == IF key \in DOMAIN data THEN data[key] ELSE default

\* The characters of s, which is what iterating over a str yields.
Chars(s) == [i \in 1..Len(s) |-> At(s, i)]

\* ", ".join(x): TypeError unless x is a str or a list of str.
JoinValue(x) ==
    IF x.t = "str" THEN Return(join(", ", Chars(x.v)))
    ELSE IF x.t = "list" /\ \A i \in 1..Len(x.items) : x.items[i].t = "str"
    THEN Return(join(", ", [i \in 1..Len(x.items) |-> x.items[i].v]))
    ELSE Raise("TypeError")

(***************************************************************************)
(* FallbackGenerator                                                       *)
(***************************************************************************)

\* _get_event_duration on the four date and time fields of data, each
\* defaulting to "" and interpolated as str() renders it.
TimeInfo(data) ==
    _get_event_duration(PyStr(Get(data, "start_date", Str(""))),
                        PyStr(Get(data, "end_date", Str(""))),
                        PyStr(Get(data, "start_time", Str(""))),
                        PyStr(Get(data, "end_time", Str(""))))

\* The f-string _create_fallback_description returns.
FallbackDescriptionText(event_name, event_type, location, time_info) ==
    IF time_info.kind = "raise" THEN time_info
    ELSE Return("\n"
             \o "        Join us for " \o event_name \o ", a " \o event_type \o " event. \n"
             \o "        \n"
             \o "        This event will take place at " \o location \o " on "
             \o time_info.value
             \o ". Participants will have the opportunity to engage in activities related to "
             \o event_type \o ".\n"
             \o "        \n"
             \o "        For more information or to register, please contact the event coordinator.\n"
             \o "        ")

\* EventGenerator._create_fallback_description
_create_fallback_description(data) ==
    FallbackDescriptionText(
        PyStr(Get(data, "event_name", Str("Our upcoming event"))),
        PyStr(Get(data, "event_type", Str(""))),
        PyStr(Get(data, "location_name", Str(""))) \o ", "
            \o PyStr(Get(data, "city", Str(""))) \o ", "
            \o PyStr(Get(data, "state", Str(""))),
        TimeInfo(data))

\* ArrivalTime as it would be if the hour kept its leading zero.
ArrivalTimeKeepsZero(start_time) ==
    IF start_time.ok
    THEN strftime_time(MinusMinutes(start_time, 45))
    ELSE "45 minutes before the event start time"

\* The arrival time, given what strptime made of the start time: the try
\* body, and the except branch when it raised.
ArrivalTime(start_time) ==
    IF start_time.ok
    THEN lstrip(strftime_time(MinusMinutes(start_time, 45)), {"0"})
    ELSE "45 minutes before the event start time"

\* datetime.strptime(value, "%H:%M"): TypeError unless value is a str.
StrptimeTimeValue(value) ==
    IF value.t = "str" THEN strptime_time(value.v) ELSE ParseError

\* The arrival time of _create_fallback_volunteer_expectations.
FallbackArrivalTime(data) ==
    ArrivalTime(StrptimeTimeValue(Get(data, "start_time", Str("09:00"))))

\* EventGenerator._create_fallback_volunteer_expectations
_create_fallback_volunteer_expectations(data) ==
    LET event_name == Get(data, "event_name", Str("the event"))
    IN Return("\n"
           \o "        # Volunteer Expectations for " \o PyStr(event_name) \o "\n"
           \o "        \n"
           \o "        Thank you for volunteering for this event. Your support is essential to making it a success!\n"
           \o "        \n"
           \o "        ## Arrival and Check-in\n"
           \o "        * Please arrive by " \o FallbackArrivalTime(data)
           \o " for check-in and briefing\n"
           \o "        * Check in at the main entrance/registration desk\n"
           \o "        * A volunteer coordinator will provide you with any necessary materials and instructions\n"
           \o "        \n"
           \o "\n"
           \o "        \n"
           \o "        ## Items to Bring\n"
           \o "        * Government ID/badge\n"
           \o "        * Water bottle\n"
           \o "        * Pen and notepad\n"
           \o "        \n"
           \o "        ## Responsibilities\n"
           \o "        * Greet and direct participants\n"
           \o "        * Assist with setup and breakdown\n"
           \o "        * Support presenters and participants as needed\n"
           \o "        * Other duties as assigned by the volunteer coordinator\n"
           \o "        \n"
           \o "        ## Schedule\n"
           \o "        * Volunteers should plan to stay until the conclusion of the event\n"
           \o "        * Breaks will be coordinated by the volunteer coordinator\n"
           \o "        \n"
           \o "        ## Contact\n"
           \o "        * For questions before the event, please contact the volunteer coordinator\n"
           \o "        * On the day of the event, report to the volunteer check-in desk\n"
           \o "        ")

(***************************************************************************)
(* PromptBuilder: the values each flow interpolates into its prompt. The   *)
(* fixed text of the two templates is left out; a prompt is the record of  *)
(* its interpolated fields.                                                *)
(***************************************************************************)

NoPrompt == [template |-> "none"]

\* ", ".join of the truthy ones among location_name, street_address, city
\* and state.
LocationDetails(data) ==
    JoinValue(List(SelectSeq(<<Get(data, "location_name", Str("")),
                               Get(data, "street_address", Str("")),
                               Get(data, "city", Str("")),
                               Get(data, "state", Str(""))>>, Truthy)))

\* f"This event will be held {venue_type.lower()}." if venue_type else ""
VenueDescription(venue_type) ==
    IF ~Truthy(venue_type) THEN Return("")
    ELSE IF venue_type.t # "str" THEN Raise("AttributeError")
    ELSE Return("This event will be held " \o lower(venue_type.v) \o ".")

\* The sentence about the further dates, given the joined dates.
RecurringSentence(dates_formatted) ==
    IF dates_formatted.kind = "raise" THEN dates_formatted
    ELSE Return("This is a recurring event with additional dates: "
                    \o dates_formatted.value \o ".")

\* recurring_info: "" unless is_recurring is "Yes" and recurring_dates
\* is truthy.
RecurringInfo(is_recurring, recurring_dates) ==
    IF is_recurring = Str("Yes") /\ Truthy(recurring_dates)
    THEN RecurringSentence(JoinValue(recurring_dates))
    ELSE Return("")

\* self._get_relevant_example(event_type): event_type.lower() raises
\* AttributeError unless event_type is a str.
ExampleFor(event_type) ==
    IF event_type.t # "str" THEN Raise("AttributeError")
    ELSE _get_relevant_example(event_type.v)

VolunteerExampleFor(event_type) ==
    IF event_type.t # "str" THEN Raise("AttributeError")
    ELSE _get_relevant_volunteer_example(event_type.v)

AudienceFor(event_type) ==
    IF event_type.t # "str" THEN Raise("AttributeError")
    ELSE _get_target_audience(event_type.v)

\* The steps of generate_event_description before its try statement, in
\* the order they run: the first that raised ends the call, otherwise the
\* prompt is assembled.
DescriptionSteps(event_name, event_type, event_category, time_info, location_details, venue_description, recurring_info, example_description, target_audience) ==
    IF time_info.kind = "raise" THEN time_info
    ELSE IF location_details.kind = "raise" THEN location_details
    ELSE IF venue_description.kind = "raise" THEN venue_description
    ELSE IF recurring_info.kind = "raise" THEN recurring_info
    ELSE IF example_description.kind = "raise" THEN example_description
    ELSE IF target_audience.kind = "raise" THEN target_audience
    ELSE Return([template |-> "description",
                 event_name |-> event_name,
                 event_type |-> event_type,
                 event_category |-> event_category,
                 location_details |-> location_details.value,
                 time_info |-> time_info.value,
                 venue_description |-> venue_description.value,
                 recurring_info |-> recurring_info.value,
                 target_audience |-> target_audience.value,
                 example |-> example_description.value])

\* generate_event_description up to the prompt: Raise(e) when a step
\* raises, Return(prompt) otherwise.
DescriptionPrompt(data) ==
    DescriptionSteps(
        PyStr(Get(data, "event_name", Str(""))),
        PyStr(Get(data, "event_type", Str(""))),
        PyStr(Get(data, "event_category", Str("Standard Event"))),
        TimeInfo(data),
        LocationDetails(data),
        VenueDescription(Get(data, "venue_type", Str(""))),
        RecurringInfo(Get(data, "is_recurring", Str("No")),
                      Get(data, "recurring_dates", List(<<>>))),
        ExampleFor(Get(data, "event_type", Str(""))),
        AudienceFor(Get(data, "event_type", Str(""))))

\* start_datetime - timedelta(minutes=45) raises OverflowError when it
\* falls before datetime.min, 0001-01-01 00:00.
BeforeMin(start_datetime) ==
    /\ ToOrdinal(start_datetime.year, start_datetime.month, start_datetime.day) = 1
    /\ start_datetime.hour * 60 + start_datetime.minute < 45

\* The try body of the arrival time once start_date and start_time are
\* truthy, and its except branch.
PromptArrival(start_datetime) ==
    IF start_datetime.ok /\ ~BeforeMin(start_datetime)
    THEN lstrip(strftime_time(MinusMinutes(start_datetime, 45)), {"0"})
    ELSE "45 minutes before the event start time"

\* The arrival time of generate_volunteer_expectations: "" unless both
\* start_date and start_time are truthy.
PromptArrivalTime(start_date, start_time) ==
    IF Truthy(start_date) /\ Truthy(start_time)
    THEN PromptArrival(strptime_datetime(PyStr(start_date) \o " " \o PyStr(start_time)))
    ELSE ""

\* The steps of generate_volunteer_expectations before its try statement.
ExpectationsSteps(event_name, event_type, arrival_time, time_info, is_multi_day, example_expectations, description_text) ==
    IF time_info.kind = "raise" THEN time_info
    ELSE IF example_expectations.kind = "raise" THEN example_expectations
    ELSE Return([template |-> "expectations",
                 event_name |-> event_name,
                 event_type |-> event_type,
                 time_info |-> time_info.value,
                 arrival_time |-> arrival_time,
                 multi_day |-> IF is_multi_day THEN "Yes" ELSE "No",
                 event_description |-> description_text,
                 example |-> example_expectations.value])

\* ExpectationsPrompt as it would be if it trimmed the description it embeds.
ExpectationsPromptStripped(data, description_text) ==
    ExpectationsSteps(
        PyStr(Get(data, "event_name", Str(""))),
        PyStr(Get(data, "event_type", Str(""))),
        PromptArrivalTime(Get(data, "start_date", Str("")),
                          Get(data, "start_time", Str(""))),
        TimeInfo(data),
        Get(data, "start_date", None) # Get(data, "end_date", None),
        VolunteerExampleFor(Get(data, "event_type", Str(""))),
        strip(description_text))

\* generate_volunteer_expectations up to the prompt.
ExpectationsPrompt(data, description_text) ==
    ExpectationsSteps(
        PyStr(Get(data, "event_name", Str(""))),
        PyStr(Get(data, "event_type", Str(""))),
        PromptArrivalTime(Get(data, "start_date", Str("")),
                          Get(data, "start_time", Str(""))),
        TimeInfo(data),
        Get(data, "start_date", None) # Get(data, "end_date", None),
        VolunteerExampleFor(Get(data, "event_type", Str(""))),
        description_text)

(***************************************************************************)
(* TextGenerationClient                                                    *)
(***************************************************************************)

NoResponse == [shape |-> "none", text |-> ""]

\* _invoke_model as it would be if it raised on a reply without usable text.
_invoke_model_raises_on_empty(r) ==
    CASE r.shape = "error" -> Raise("ClientError")
      [] r.shape = "not_json" -> Raise("JSONDecodeError")
      [] r.shape = "bad_block" -> Raise("TypeError")
      [] r.shape \in {"no_content", "empty_content", "content_not_list", "no_text"} ->
             Raise("ValueError")
      [] r.shape = "null_text" -> Return(None)
      [] r.shape = "text" -> Return(Str(r.text))

\* EventGenerator._invoke_model on the provider's answer r:
\*   error            bedrock.invoke_model raised
\*   not_json         the body is not JSON
\*   no_content       {}                              no "content" key
\*   empty_content    {"content": []}
\*   content_not_list {"content": "..."}
\*   no_text          {"content": [{"type": "tool_use"}]}
\*   bad_block        {"content": [5]}                 'text' in 5 raises
\*   null_text        {"content": [{"text": null}]}
\*   text             {"content": [{"text": r.text}]}
_invoke_model(r) ==
    CASE r.shape = "error" -> Raise("ClientError")
      [] r.shape = "not_json" -> Raise("JSONDecodeError")
      [] r.shape = "bad_block" -> Raise("TypeError")
      [] r.shape \in {"no_content", "empty_content", "content_not_list", "no_text"} ->
             Return(Str(""))
      [] r.shape = "null_text" -> Return(None)
      [] r.shape = "text" -> Return(Str(r.text))

(***************************************************************************)
(* Orchestrator                                                            *)
(***************************************************************************)

\* TryAgain as it would be with one retry.
TryAgainOnce(n) == n < 2

\* Whether a flow calls _invoke_model again after its n-th request failed:
\* the try statement is not in a loop.
TryAgain(n) == FALSE

\* description_try as it would be without its except branch: the error of
\* _invoke_model leaves generate_event_description.
description_try_propagates(g, data) ==
    IF g.kind = "return" /\ g.value.t = "str"
    THEN Return(strip(g.value.v))
    ELSE Raise(IF g.kind = "raise" THEN g.value ELSE "AttributeError")

\* generate_event_description from the try statement on, g being how
\* _invoke_model ended: response.strip(), or the except branch.
description_try(g, data) ==
    IF g.kind = "return" /\ g.value.t = "str"
    THEN Return(strip(g.value.v))
    ELSE _create_fallback_description(data)

\* generate_volunteer_expectations from the try statement on.
expectations_try(g, data) ==
    IF g.kind = "return" /\ g.value.t = "str"
    THEN Return(strip(g.value.v))
    ELSE _create_fallback_volunteer_expectations(data)

(***************************************************************************)
(* Inputs                                                                  *)
(***************************************************************************)

\* The longest run of whitespace put before and after a generated text.
MaxPad == 1

\* The most words an event type is composed of.
MaxWords == 2

DateStrs ==
    {"2025-06-15", "2025-06-16", "2025-6-15", "2025-06-15 ", "2025-06-05",
     "2024-02-29", "2025-02-29", "not-a-date", ""}

TimeStrs == {"09:00", "17:00", "00:30", "12:00", "9:05", "24:00", ""}

FormatInputs == DateStrs \X DateStrs \X TimeStrs \X TimeStrs

Words ==
    {"Career", "Fair", "STEM", "Activity", "Workshop", "Unfair", "Stemware",
     "Open", "House", "Job", "Camp", "Training"}

RECURSIVE Phrases(_)
Phrases(n) ==
    IF n <= 1 THEN Words
    ELSE LET shorter == Phrases(n - 1)
         IN shorter \cup {p \o " " \o w : p \in shorter, w \in Words}

EventTypes ==
    Phrases(MaxWords) \cup
        {"", "Regional Career Fair Day", "Cybersecurity Summer Camp",
         "Executive Networking Workshop", "INTERNSHIP professional"}

RECURSIVE Pads(_)
Pads(n) ==
    IF n = 0 THEN {""}
    ELSE LET shorter == Pads(n - 1)
         IN shorter \cup {p \o c : p \in shorter, c \in {" ", "\n"}}

Texts ==
    {l \o core \o r : l \in Pads(MaxPad), r \in Pads(MaxPad),
                      core \in {"", "A description.", "Two  words"}}

Responses ==
    {[shape |-> sh, text |-> ""] :
        sh \in {"error", "not_json", "no_content", "empty_content",
                "content_not_list", "no_text", "bad_block", "null_text"}}
        \cup {[shape |-> "text", text |-> t] : t \in Texts}

\* A description the caller wrote, or kept from elsewhere.
OtherDescriptions == {"A description written by hand."}

EmptyEvent == [k \in {} |-> None]

BaseEvent ==
    [event_name |-> Str("STEM Night"), event_type |-> Str("Career Fair"),
     event_category |-> Str("Outreach"), location_name |-> Str("CSU"),
     street_address |-> Str("9200 University Blvd"), city |-> Str("Charleston"),
     state |-> Str("SC"), venue_type |-> Str("In-Person"),
     start_date |-> Str("2025-06-15"), end_date |-> Str("2025-06-15"),
     start_time |-> Str("09:00"), end_time |-> Str("17:00"),
     is_recurring |-> Str("Yes"), recurring_dates |-> List(<<Str("2025-07-15")>>)]

Without(data, key) == [k \in DOMAIN data \ {key} |-> data[k]]

With(data, key, value) ==
    [k \in DOMAIN data \cup {key} |-> IF k = key THEN value ELSE data[k]]

\* Values a caller may put in place of one field of BaseEvent.
Changes ==
    {<<"event_name", None>>,
     <<"event_type", Str("Open House")>>, <<"event_type", Str("Robotics Workshop")>>,
     <<"event_type", None>>,
     <<"location_name", PyInt(5)>>, <<"city", Str("")>>,
     <<"venue_type", Str("")>>, <<"venue_type", PyInt(5)>>,
     <<"start_date", Str("not-a-date")>>, <<"start_date", Str("2025-6-15")>>,
     <<"start_date", None>>,
     <<"end_date", Str("2025-06-16")>>, <<"end_date", None>>,
     <<"start_time", Str("00:30")>>, <<"start_time", Str("noon")>>,
     <<"start_time", Str("9:00")>>, <<"start_time", None>>,
     <<"end_time", Str("5pm")>>,
     <<"is_recurring", Str("No")>>,
     <<"recurring_dates", List(<<>>)>>,
     <<"recurring_dates", List(<<Str("2025-07-15"), PyInt(5)>>)>>,
     <<"recurring_dates", PyInt(5)>>, <<"recurring_dates", Str("ab")>>}

\* The EventData mappings callers pass: the complete event, the empty
\* mapping, and the complete event with one field absent or changed.
EventDatas ==
    {BaseEvent, EmptyEvent}
        \cup {Without(BaseEvent, k) : k \in DOMAIN BaseEvent}
        \cup {With(BaseEvent, c[1], c[2]) : c \in Changes}

(***************************************************************************)
(* The flows                                                               *)
(***************************************************************************)

Unresolved == [resolved |-> FALSE, text |-> ""]

Resolved(text) == [resolved |-> TRUE, text |-> text]

Flows == {"generate_event_description", "generate_volunteer_expectations"}

\* After construction: no call made yet.
Init ==
    /\ pc = "idle"
    /\ op = "__init__"
    /\ args = <<>>
    /\ ret = NoReturn
    /\ event_data = EmptyEvent
    /\ event_description = ""
    /\ prompt = NoPrompt
    /\ requests = 0
    /\ response = NoResponse
    /\ generated = NoReturn
    /\ description = Unresolved

\* A flow is entered with `data` and runs to its try statement, or raises.
Enter(name, data, description_text, built) ==
    /\ op' = name
    /\ event_data' = data
    /\ event_description' = description_text
    /\ requests' = 0
    /\ response' = NoResponse
    /\ generated' = NoReturn
    /\ IF built.kind = "raise"
       THEN /\ prompt' = NoPrompt
            /\ ret' = built
            /\ pc' = "idle"
       ELSE /\ prompt' = built.value
            /\ ret' = NoReturn
            /\ pc' = "invoke"
    /\ UNCHANGED args

\* A caller calls generate_event_description(data) on the constructed
\* object. The object keeps nothing from one call to the next, so one
\* request (a description, then expectations for the same event) is followed.
generate_event_description(data) ==
    /\ pc = "idle"
    /\ op = "__init__"
    /\ Enter("generate_event_description", data, "", DescriptionPrompt(data))
    /\ UNCHANGED description

\* A caller calls generate_volunteer_expectations(data, description_text):
\* first of all, or for the event whose description flow has ended.
generate_volunteer_expectations(data, description_text) ==
    /\ pc = "idle"
    /\ \/ op = "__init__"
       \/ op = "generate_event_description" /\ data = event_data
    /\ Enter("generate_volunteer_expectations", data, description_text,
             ExpectationsPrompt(data, description_text))
    /\ UNCHANGED description

\* _invoke_model sends the request: self.bedrock.invoke_model(...).
InvokeModel ==
    /\ pc = "invoke"
    /\ requests' = requests + 1
    /\ pc' = "awaiting"
    /\ UNCHANGED <<op, args, ret, event_data, event_description, prompt, response,
                   generated, description>>

\* The flow's try statement ends with `out`: the flow returns it.
Finish(out) ==
    /\ pc' = "idle"
    /\ ret' = out
    /\ description' =
           IF op = "generate_event_description" /\ out.kind = "return"
           THEN Resolved(out.value)
           ELSE description

\* _invoke_model ended as g for the flow in progress.
Generated(g) ==
    /\ generated' = g
    /\ IF ~(g.kind = "return" /\ g.value.t = "str") /\ TryAgain(requests)
       THEN /\ pc' = "invoke"
            /\ UNCHANGED <<ret, description>>
       ELSE IF op = "generate_event_description"
       THEN Finish(description_try(g, event_data))
       ELSE Finish(expectations_try(g, event_data))

\* The provider answers r; _invoke_model returns or raises, and the flow
\* returns the stripped text or its fallback.
ProviderResponds(r) ==
    /\ pc = "awaiting"
    /\ response' = r
    /\ Generated(_invoke_model(r))
    /\ UNCHANGED <<op, args, event_data, event_description, prompt, requests>>

Next ==
    \/ \E data \in EventDatas : generate_event_description(data)
    \/ \E data \in EventDatas :
           \E description_text \in
                   OtherDescriptions \cup
                       (IF description.resolved THEN {description.text} ELSE {}) :
               generate_volunteer_expectations(data, description_text)
    \/ InvokeModel
    \/ \E r \in Responses : ProviderResponds(r)

Spec == Init /\ [][Next]_vars

(***************************************************************************)
(* The formatting functions applied to drawn inputs                        *)
(***************************************************************************)

InitFormat ==
    /\ pc = "idle"
    /\ op = "input"
    /\ args \in FormatInputs
    /\ ret = NoReturn
    /\ event_data = EmptyEvent
    /\ event_description = ""
    /\ prompt = NoPrompt
    /\ requests = 0
    /\ response = NoResponse
    /\ generated = NoReturn
    /\ description = Unresolved

Apply(name, result) ==
    /\ op = "input"
    /\ op' = name
    /\ ret' = result
    /\ UNCHANGED <<pc, args, event_data, event_description, prompt, requests,
                   response, generated, description>>

\* _format_datetime(start_date, start_time)
Call_format_datetime == Apply("_format_datetime", _format_datetime(args[1], args[3]))

\* _get_event_duration(start_date, end_date, start_time, end_time)
Call_get_event_duration ==
    Apply("_get_event_duration",
          _get_event_duration(args[1], args[2], args[3], args[4]))

NextFormat == Call_format_datetime \/ Call_get_event_duration

SpecFormat == InitFormat /\ [][NextFormat]_vars

(***************************************************************************)
(* The classifier applied to drawn event types                             *)
(***************************************************************************)

InitClassify ==
    /\ pc = "idle"
    /\ op = "input"
    /\ args \in {<<event_type>> : event_type \in EventTypes}
    /\ ret = NoReturn
    /\ event_data = EmptyEvent
    /\ event_description = ""
    /\ prompt = NoPrompt
    /\ requests = 0
    /\ response = NoResponse
    /\ generated = NoReturn
    /\ description = Unresolved

Call_get_relevant_example ==
    Apply("_get_relevant_example", _get_relevant_example(args[1]))

Call_get_relevant_volunteer_example ==
    Apply("_get_relevant_volunteer_example", _get_relevant_volunteer_example(args[1]))

Call_get_target_audience ==
    Apply("_get_target_audience", _get_target_audience(args[1]))

NextClassify ==
    \/ Call_get_relevant_example
    \/ Call_get_relevant_volunteer_example
    \/ Call_get_target_audience

SpecClassify == InitClassify /\ [][NextClassify]_vars

(***************************************************************************)
(* Properties                                                              *)
(***************************************************************************)

AllWhitespace(s) == \A i \in 1..Len(s) : At(s, i) \in Whitespace

\* result is text without its leading and trailing whitespace.
IsTrimOf(result, text) ==
    \E i \in 0..Len(text) : \E j \in 0..(Len(text) - i) :
        /\ AllWhitespace(SubSeq(text, 1, i))
        /\ AllWhitespace(SubSeq(text, Len(text) - j + 1, Len(text)))
        /\ result = SubSeq(text, i + 1, Len(text) - j)
        /\ result # "" => At(result, 1) \notin Whitespace
        /\ result # "" => At(result, Len(result)) \notin Whitespace

\* The flow `name` made its remote call and has ended.
FlowEnded(name) == pc = "idle" /\ op = name /\ response # NoResponse

\* _invoke_model returned a str to the flow.
ClientReturnedText == generated.kind = "return" /\ generated.value.t = "str"

\* _invoke_model raised.
ClientFailed == generated.kind = "raise"

\* C1: in both flows the result follows the outcome of the remote call:
\* when the client returned text the flow returns exactly that text without
\* its leading and trailing whitespace; when the client raised, the flow
\* returns exactly the fallback text of its kind for the same event data,
\* and nothing is raised to the caller.
C1_ResultFollowsRemoteOutcome ==
    /\ FlowEnded("generate_event_description") =>
           /\ ClientReturnedText =>
                  ret.kind = "return" /\ IsTrimOf(ret.value, generated.value.v)
           /\ ClientFailed => ret = _create_fallback_description(event_data)
           /\ ret.kind # "raise"
    /\ FlowEnded("generate_volunteer_expectations") =>
           /\ ClientReturnedText =>
                  ret.kind = "return" /\ IsTrimOf(ret.value, generated.value.v)
           /\ ClientFailed => ret = _create_fallback_volunteer_expectations(event_data)
           /\ ret.kind # "raise"

\* The description flow ended on a failed remote call with the fallback
\* description of the complete event.
C1_Witness ==
    /\ FlowEnded("generate_event_description")
    /\ event_data = BaseEvent
    /\ response.shape = "error"
    /\ ClientFailed
    /\ ret = _create_fallback_description(BaseEvent)

\* C2: an invocation of either flow issues at most one request to the
\* text-generation client: no request follows a failed one, and the
\* fallback is produced with the count still at one.
C2_AtMostOneRequest ==
    /\ requests <= 1
    /\ pc \in {"invoke", "awaiting"} => response = NoResponse
    /\ pc = "awaiting" => requests = 1
    /\ (op \in Flows /\ pc = "idle" /\ response # NoResponse) => requests = 1
    /\ (op \in Flows /\ pc = "idle" /\ response = NoResponse) => requests = 0

\* The expectations flow ended on its fallback after its one request failed.
C2_Witness ==
    /\ FlowEnded("generate_volunteer_expectations")
    /\ response.shape = "not_json"
    /\ requests = 1
    /\ ret = _create_fallback_volunteer_expectations(event_data)

\* C3: whatever the fields of the EventData mapping hold, and whatever the
\* remote call does, a flow that has ended has returned a string: nothing
\* is raised to the caller.
C3_AlwaysReturnsString ==
    (op \in Flows /\ pc = "idle") => ret.kind = "return"

\* C4 as claimed: the expectations flow is in progress only after the
\* description flow has resolved, and its prompt embeds the resolved text.
C4_StartsAfterDescriptionResolved ==
    (op = "generate_volunteer_expectations" /\ prompt # NoPrompt) =>
        /\ description.resolved
        /\ prompt.event_description = description.text

\* C4: the prompt of the expectations flow embeds exactly the
\* event_description argument the flow was called with, and so the resolved
\* description, unchanged, whenever the caller passes that.
C4_PromptEmbedsDescriptionArgument ==
    (op = "generate_volunteer_expectations" /\ prompt # NoPrompt) =>
        /\ prompt.template = "expectations"
        /\ prompt.event_description = event_description
        /\ (description.resolved /\ event_description = description.text) =>
               prompt.event_description = description.text

\* The expectations flow awaits its remote call with the fallback
\* description of the same event, as the description flow returned it.
C4_Witness ==
    /\ op = "generate_volunteer_expectations"
    /\ pc = "awaiting"
    /\ description.resolved
    /\ description.text = _create_fallback_description(event_data).value
    /\ event_description = description.text
    /\ prompt.event_description = description.text

\* "<H>:<MM> <AM/PM>" on the 12-hour clock, the hour without a leading zero.
ClockOf(dt) ==
    StrInt(((dt.hour + 11) % 12) + 1) \o ":" \o Pad2(dt.minute) \o " "
        \o (IF dt.hour < 12 THEN "AM" ELSE "PM")

\* "<Weekday>, <Month> <Day>, <Year> at <H>:<MM> <AM/PM>"
FullOf(dt) == strftime_date(dt) \o " at " \o ClockOf(dt)

StartOfArgs == strptime_datetime(args[1] \o " " \o args[3])

EndOfArgs == strptime_datetime(args[2] \o " " \o args[4])

\* C5: for parseable endpoints on different date strings, format_span
\* returns "<full start> to <full end>", each hour without a leading zero.
C5_MultiDayWithoutLeadingZero ==
    (/\ op = "_get_event_duration"
     /\ StartOfArgs.ok /\ EndOfArgs.ok
     /\ args[1] # args[2]) =>
        ret = Return(FullOf(StartOfArgs) \o " to " \o FullOf(EndOfArgs))

\* "<Weekday>, <Month> <Day>, <Year>, <start clock> to <end clock>"
SameDayOf(start, end) ==
    strftime_date(start) \o ", " \o ClockOf(start) \o " to " \o ClockOf(end)

\* C6: with both endpoints parseable, format_span gives the same-day
\* rendering (the date once, no leading zero on either hour) exactly when
\* start_date and end_date are the same string.
C6_SameDayByStringEquality ==
    (op = "_get_event_duration" /\ StartOfArgs.ok /\ EndOfArgs.ok) =>
        /\ ret.kind = "return"
        /\ (args[1] = args[2]) <=> (ret.value = SameDayOf(StartOfArgs, EndOfArgs))

\* The same-day rendering of the documented example.
C6_Witness ==
    /\ op = "_get_event_duration"
    /\ args = <<"2025-06-15", "2025-06-15", "09:00", "17:00">>
    /\ ret = Return("Sunday, June 15, 2025, 9:00 AM to 5:00 PM")

\* C7: the formatting functions never raise; when a date or time does not
\* parse, format_point returns "<date> at <time>" and format_span returns
\* "<start_date> <start_time> to <end_date> <end_time>", the inputs verbatim,
\* also when only one endpoint does not parse.
C7_DegradedVerbatim ==
    /\ op = "_format_datetime" =>
           /\ ret.kind = "return"
           /\ (~strptime_date(args[1]).ok \/ ~strptime_time(args[3]).ok) =>
                  ret.value = args[1] \o " at " \o args[3]
    /\ op = "_get_event_duration" =>
           /\ ret.kind = "return"
           /\ (~StartOfArgs.ok \/ ~EndOfArgs.ok) =>
                  ret.value = args[1] \o " " \o args[3] \o " to "
                                  \o args[2] \o " " \o args[4]

\* format_span with only its end point unparseable.
C7_Witness ==
    /\ op = "_get_event_duration"
    /\ args = <<"2025-06-15", "not-a-date", "09:00", "17:00">>
    /\ StartOfArgs.ok /\ ~EndOfArgs.ok
    /\ ret = Return("2025-06-15 09:00 to not-a-date 17:00")

\* The catalog the called best_example function reads.
CatalogOfOp ==
    IF op = "_get_relevant_example" THEN example_descriptions
    ELSE example_volunteer_expectations

BestExampleCalled == op \in {"_get_relevant_example", "_get_relevant_volunteer_example"}

\* The set of whitespace-delimited words of s.
WordSet(s) == {split(s)[k] : k \in 1..Len(split(s))}

\* Pass 1: the keyword is a substring of the event type, case-insensitively.
IsSubstringKey(key, event_type) == contains(lower(key), lower(event_type))

\* Pass 2 as claimed: keyword and event type share a whole word.
SharesWholeWord(key, event_type) ==
    WordSet(lower(key)) \cap WordSet(lower(event_type)) # {}

\* Pass 2 as run: a word of the keyword is a substring of the event type.
HasWordInside(key, event_type) ==
    \E w \in WordSet(lower(key)) : contains(w, lower(event_type))

\* C8 as claimed: the first keyword that is a substring of event_type
\* wins; failing that, the first keyword sharing a whole word with it.
C8_WholeWordSecondPass ==
    BestExampleCalled =>
        LET catalog == CatalogOfOp
            n == Len(catalog)
        IN /\ \A i \in 1..n :
                  (/\ IsSubstringKey(catalog[i].key, args[1])
                   /\ \A j \in 1..(i - 1) : ~IsSubstringKey(catalog[j].key, args[1]))
                      => ret = Return(catalog[i].example)
           /\ \A i \in 1..n :
                  (/\ \A j \in 1..n : ~IsSubstringKey(catalog[j].key, args[1])
                   /\ SharesWholeWord(catalog[i].key, args[1])
                   /\ \A j \in 1..(i - 1) : ~SharesWholeWord(catalog[j].key, args[1]))
                      => ret = Return(catalog[i].example)

\* C8: the first keyword that is a substring of event_type wins; failing
\* that, the first keyword one of whose words is a substring of event_type.
C8_SubstringSecondPass ==
    BestExampleCalled =>
        LET catalog == CatalogOfOp
            n == Len(catalog)
        IN /\ \A i \in 1..n :
                  (/\ IsSubstringKey(catalog[i].key, args[1])
                   /\ \A j \in 1..(i - 1) : ~IsSubstringKey(catalog[j].key, args[1]))
                      => ret = Return(catalog[i].example)
           /\ \A i \in 1..n :
                  (/\ \A j \in 1..n : ~IsSubstringKey(catalog[j].key, args[1])
                   /\ HasWordInside(catalog[i].key, args[1])
                   /\ \A j \in 1..(i - 1) : ~HasWordInside(catalog[j].key, args[1]))
                      => ret = Return(catalog[i].example)

\* Pass 2 decides, on a word of a keyword that is inside a longer word of
\* the event type.
C8_Witness ==
    /\ op = "_get_relevant_example"
    /\ args = <<"Stemware House">>
    /\ \A i \in 1..Len(example_descriptions) :
           ~IsSubstringKey(example_descriptions[i].key, args[1])
    /\ ~SharesWholeWord("STEM Activity", args[1])
    /\ ret = Return(example_descriptions[2].example)

\* C9: an event type that no keyword matches in either pass gets the
\* first entry of the catalog, never the empty string.
C9_DefaultIsFirstEntry ==
    (/\ BestExampleCalled
     /\ \A i \in 1..Len(CatalogOfOp) :
            /\ ~IsSubstringKey(CatalogOfOp[i].key, args[1])
            /\ ~HasWordInside(CatalogOfOp[i].key, args[1])) =>
        /\ ret = Return(CatalogOfOp[1].example)
        /\ ret.value # ""

\* "Open House" against the volunteer-expectations catalog.
C9_Witness ==
    /\ op = "_get_relevant_volunteer_example"
    /\ args = <<"Open House">>
    /\ ret = Return(example_volunteer_expectations[1].example)

\* Some term of the set is inside the event type, case-insensitively.
Hits(terms, event_type) == \E term \in terms : contains(term, lower(event_type))

JobTerms == {"career fair", "job", "internship"}

StemTerms == {"stem", "science", "math", "cyber", "robotics", "camp"}

ProfessionalTerms == {"workshop", "training", "professional"}

\* C10: infer_audience gives the audience of the first term-set, in the
\* order job, STEM, professional, that the event type hits, and
\* "participants" when it hits none.
C10_AudienceByPriority ==
    op = "_get_target_audience" =>
        /\ ret.kind = "return"
        /\ Hits(JobTerms, args[1]) => ret.value = "students and job seekers"
        /\ (~Hits(JobTerms, args[1]) /\ Hits(StemTerms, args[1])) =>
               ret.value = "students and educators"
        /\ (/\ ~Hits(JobTerms, args[1]) /\ ~Hits(StemTerms, args[1])
            /\ Hits(ProfessionalTerms, args[1])) =>
               ret.value = "professionals and educators"
        /\ (/\ ~Hits(JobTerms, args[1]) /\ ~Hits(StemTerms, args[1])
            /\ ~Hits(ProfessionalTerms, args[1])) =>
               ret.value = "participants"

\* An event type that hits the job terms and the STEM terms.
C10_Witness ==
    /\ op = "_get_target_audience"
    /\ args = <<"Job Camp">>
    /\ Hits(JobTerms, args[1]) /\ Hits(StemTerms, args[1])
    /\ ret = Return("students and job seekers")

\* The line of the fallback expectations that carries the arrival time.
ArrivalLine(arrival_time) ==
    "* Please arrive by " \o arrival_time \o " for check-in and briefing\n"

\* The clock 45 minutes before hour:minute on the 24-hour clock, wrapping
\* past midnight, rendered on the 12-hour clock.
Clock45Before(hour, minute) ==
    LET t == (hour * 60 + minute + 1440 - 45) % 1440
    IN ClockOf([hour |-> t \div 60, minute |-> t % 60])

\* The arrival time the fallback expectations are to carry for data.
ExpectedFallbackArrival(data) ==
    IF "start_time" \notin DOMAIN data THEN "8:15 AM"
    ELSE IF data["start_time"].t = "str" /\ strptime_time(data["start_time"].v).ok
    THEN Clock45Before(strptime_time(data["start_time"].v).hour,
                       strptime_time(data["start_time"].v).minute)
    ELSE "45 minutes before the event start time"

\* The expectations flow ended on its fallback text.
ExpectationsFellBack ==
    /\ FlowEnded("generate_volunteer_expectations")
    /\ ClientFailed
    /\ ret.kind = "return"

\* C11: the fallback expectations carry, as arrival time, start_time minus
\* 45 minutes on the 24-hour clock (wrapping past midnight) rendered on the
\* 12-hour clock without a leading zero; 8:15 AM when start_time is absent;
\* and the phrase "45 minutes before the event start time" when start_time
\* does not parse, in which case the fallback is still returned.
C11_FallbackArrivalTime ==
    /\ (FlowEnded("generate_volunteer_expectations") /\ ClientFailed) =>
           ret.kind = "return"
    /\ ExpectationsFellBack =>
           /\ contains(ArrivalLine(ExpectedFallbackArrival(event_data)), ret.value)
           /\ ~contains("arrive by 0", ret.value)

\* The fallback of an event starting at 00:30 asks for arrival by 11:45 PM.
C11_Witness ==
    /\ ExpectationsFellBack
    /\ "start_time" \in DOMAIN event_data
    /\ event_data["start_time"] = Str("00:30")
    /\ contains(ArrivalLine("11:45 PM"), ret.value)

\* The expectations flow has built its prompt for an event whose start_time
\* is a str that parses as "%H:%M".
ExpectationsPromptWithStartTime ==
    /\ op = "generate_volunteer_expectations"
    /\ prompt # NoPrompt
    /\ "start_time" \in DOMAIN event_data
    /\ event_data["start_time"].t = "str"
    /\ strptime_time(event_data["start_time"].v).ok

\* start_date and end_date differ as strings, an absent field being "".
DatesDifferAsStrings(data) ==
    PyStr(Get(data, "start_date", Str(""))) # PyStr(Get(data, "end_date", Str("")))

\* C12: for every event whose start_time is a valid HH:MM, whatever its
\* other fields hold, the arrival time in the expectations prompt is
\* start_time minus 45 minutes, the value the fallback computes for that
\* event, and the multi-day flag is "Yes" exactly when start_date and
\* end_date differ as strings.
C12_PromptArrivalFromStartTime ==
    ExpectationsPromptWithStartTime =>
        /\ prompt.arrival_time = ExpectedFallbackArrival(event_data)
        /\ prompt.arrival_time = FallbackArrivalTime(event_data)
        /\ (prompt.multi_day = "Yes") <=> DatesDifferAsStrings(event_data)

\* The provider's reply has an empty content sequence, or a first block
\* that is a mapping without a text field.
ReplyWithoutText == response.shape \in {"empty_content", "no_text"}

\* The fallback text of the flow `name` for data.
FallbackOf(name, data) ==
    IF name = "generate_event_description"
    THEN _create_fallback_description(data)
    ELSE _create_fallback_volunteer_expectations(data)

\* C13: when the reply has an empty content sequence or a first block
\* without a text field, the client returns the empty string without
\* raising, and the flow returns the empty string, not its fallback text.
C13_EmptyReplyIsSuccess ==
    \A name \in Flows :
        (FlowEnded(name) /\ ReplyWithoutText) =>
            /\ generated = Return(Str(""))
            /\ ret = Return("")
            /\ ret # FallbackOf(name, event_data)

\* The description flow of the complete event ended with the empty string
\* on a reply whose first block has no text field.
C13_Witness ==
    /\ FlowEnded("generate_event_description")
    /\ event_data = BaseEvent
    /\ response.shape = "no_text"
    /\ requests = 1
    /\ ret = Return("")

====
